---- MODULE Spec2Model ----
(***************************************************************************)
(* Model of src/app.py: the /data policy check enforce_security and the    *)
(* eight operations that call it before touching the network, git, a       *)
(* database, a model or the filesystem.                                    *)
(*                                                                         *)
(* Path strings are sequences of characters, so that str.startswith and    *)
(* str.endswith are computed character by character.  The filesystem is a  *)
(* tree of directories and regular files (no symbolic links); a path       *)
(* string is resolved against it component by component the way the        *)
(* kernel does for os.path.exists and open.                                *)
(***************************************************************************)
EXTENDS Integers, Sequences, FiniteSets, TLC

VARIABLES fs, th, gate, calls

vars == <<fs, th, gate, calls>>

(***************************************************************************)
(* Bounds.                                                                 *)
(***************************************************************************)
\* longest path string, in components, handed to the policy check alone
MaxSegs == 3
\* number of invocations in one behaviour
MaxCalls == 3

(***************************************************************************)
(* Strings.                                                                *)
(***************************************************************************)
SLASH == "/"
N_data == <<"d", "a", "t", "a">>
N_database == <<"d", "a", "t", "a", "b", "a", "s", "e">>
N_etc == <<"e", "t", "c">>
N_x == <<"x">>
N_y == <<"y">>
N_in == <<"i", "n">>
N_qdb == <<"q", ".", "d", "b">>
N_repo == <<"r", "e", "p", "o">>
N_dot == <<".">>
N_dotdot == <<".", ".">>

\* the literal '/data' of line 17
DataPrefix == <<SLASH>> \o N_data
\* the literal '.db' of line 51
DbSuffix == <<".", "d", "b">>
\* Python's None (data.get of a missing key); no path string equals it
None == <<"None">>

\* "/" + "/".join(names)
RECURSIVE JoinPath(_)
JoinPath(names) ==
  IF names = <<>> THEN <<>>
  ELSE <<SLASH>> \o Head(names) \o JoinPath(Tail(names))

\* str.startswith
startswith(s, prefix) ==
  /\ Len(s) >= Len(prefix)
  /\ SubSeq(s, 1, Len(prefix)) = prefix

\* str.endswith
endswith(s, suffix) ==
  /\ Len(s) >= Len(suffix)
  /\ SubSeq(s, Len(s) - Len(suffix) + 1, Len(s)) = suffix

\* the components of a path string, as s.split('/') gives them
RECURSIVE Split(_)
Split(s) ==
  IF s = <<>> THEN << <<>> >>
  ELSE LET rest == Split(Tail(s)) IN
       IF Head(s) = SLASH THEN << <<>> >> \o rest
       ELSE << <<Head(s)>> \o Head(rest) >> \o Tail(rest)

(***************************************************************************)
(* The filesystem: a function from the nodes that exist (a node is the     *)
(* sequence of names from the root) to what they are.  The root exists     *)
(* always and is the node << >>.                                           *)
(***************************************************************************)
Dir == [kind |-> "dir", content |-> <<>>]
File(c) == [kind |-> "file", content |-> c]

IsDir(f, n) == n = <<>> \/ (n \in DOMAIN f /\ f[n].kind = "dir")
IsFile(f, n) == n \in DOMAIN f /\ f[n].kind = "file"
Parent(n) == IF n = <<>> THEN <<>> ELSE SubSeq(n, 1, Len(n) - 1)

\* One step of path resolution: from the pair <<ok, node>> over component c.
\* Every component is looked up in the node reached so far, which must be a
\* directory; '' and '.' stay, '..' goes to the parent.
WalkStep(f, st, c) ==
  IF ~st[1] THEN st
  ELSE IF c = <<>> \/ c = N_dot THEN st
  ELSE IF ~IsDir(f, st[2]) THEN <<FALSE, st[2]>>
  ELSE IF c = N_dotdot THEN <<TRUE, Parent(st[2])>>
  ELSE <<TRUE, Append(st[2], c)>>

RECURSIVE Walk(_, _, _)
Walk(f, st, comps) ==
  IF comps = <<>> THEN st ELSE Walk(f, WalkStep(f, st, Head(comps)), Tail(comps))

\* The node a path string names in filesystem f: <<ok, node>>, ok false when
\* the string is not absolute or a directory on the way is missing.
Resolve(f, s) ==
  IF s = <<>> \/ Head(s) # SLASH THEN <<FALSE, <<>>>>
  ELSE Walk(f, <<TRUE, <<>>>>, Split(s))

\* os.path.isfile in the place of os.path.exists: a directory does not count
path_exists_files_only(f, s) ==
  LET r == Resolve(f, s) IN r[1] /\ IsFile(f, r[2])

\* os.path.exists
path_exists(f, s) ==
  LET r == Resolve(f, s) IN r[1] /\ (r[2] = <<>> \/ r[2] \in DOMAIN f)

(***************************************************************************)
(* enforce_security (lines 15-21): the outcome of the call.                *)
(***************************************************************************)
\* the check without its existence rule (line 19 dropped)
enforce_security_prefix_only(f, filepath, allow_deletion) ==
  IF filepath = None THEN "AttributeError"
  ELSE IF ~startswith(filepath, DataPrefix) THEN "PermissionError"
  ELSE "True"

enforce_security(f, filepath, allow_deletion) ==
  IF filepath = None THEN "AttributeError"
  ELSE IF ~startswith(filepath, DataPrefix) THEN "PermissionError"
  ELSE IF ~allow_deletion /\ path_exists(f, filepath) THEN "PermissionError"
  ELSE "True"

(***************************************************************************)
(* The operations, as the sequence of their steps.  An instruction names   *)
(* the step (op) and the parameter or mode it works on (arg); "a" is the   *)
(* operation's input path, "b" its output path.                            *)
(***************************************************************************)
I(op, arg) == [op |-> op, arg |-> arg]

fetch_and_save_data ==
  << I("enforce", "b"), I("requests_get", "json_or_text"),
     I("open_w", "b"), I("write", "dump_if_dict") >>

clone_git_repo ==
  << I("enforce", "b"), I("git_clone", "b"),
     I("git_run", "add"), I("git_run", "commit") >>

\* the database is connected to before output_filename is checked
execute_sql_query_late_check ==
  << I("enforce", "a"), I("connect", "a"), I("enforce", "b"),
     I("execute", "query"), I("open_w", "b"), I("write", "dump") >>

execute_sql_query ==
  << I("enforce", "a"), I("enforce", "b"), I("connect", "a"),
     I("execute", "query"), I("open_w", "b"), I("write", "dump") >>

scrape_website ==
  << I("enforce", "b"), I("requests_get", "get_text"),
     I("open_w", "b"), I("write", "write") >>

process_image ==
  << I("enforce", "a"), I("enforce", "b"), I("image_open", "a"),
     I("open_w", "b"), I("write", "write") >>

transcribe_audio ==
  << I("enforce", "a"), I("enforce", "b"), I("load_model", "small"),
     I("transcribe", "a"), I("open_w", "b"), I("write", "write") >>

convert_md_to_html ==
  << I("enforce", "a"), I("enforce", "b"), I("read_md", "a"),
     I("open_w", "b"), I("write", "write") >>

filter_csv ==
  << I("enforce", "a"), I("read_csv", "a") >>

Program(fn) ==
  CASE fn = "fetch_and_save_data" -> fetch_and_save_data
    [] fn = "clone_git_repo" -> clone_git_repo
    [] fn = "execute_sql_query" -> execute_sql_query
    [] fn = "scrape_website" -> scrape_website
    [] fn = "process_image" -> process_image
    [] fn = "transcribe_audio" -> transcribe_audio
    [] fn = "convert_md_to_html" -> convert_md_to_html
    [] fn = "filter_csv" -> filter_csv

Functions ==
  { "fetch_and_save_data", "clone_git_repo", "execute_sql_query",
    "scrape_website", "process_image", "transcribe_audio",
    "convert_md_to_html", "filter_csv" }

\* the try blocks: what an exception raised at step pc of fn leaves the
\* operation with
Wrapped(fn, pc, exc) ==
  CASE fn = "process_image" /\ pc >= 3 -> "RuntimeError"
    [] fn = "convert_md_to_html" /\ pc >= 3 -> "RuntimeError"
    [] fn = "filter_csv" /\ pc >= 2 -> "return_500"
    [] OTHER -> exc

(***************************************************************************)
(* Contents of files and payloads in memory, as sequences of tags.         *)
(***************************************************************************)
EmptyContent == <<>>
OldContent == <<"old">>
DictData == <<"dict">>
ListData == <<"list">>
RowsData == <<"rows">>
ImageData == <<"image">>
TranscriptData == <<"transcript">>

\* json.dump(data, file, indent=4)
json_dump(data) == <<"json">> \o data
\* markdown.markdown(text)
markdown(text) == <<"html">> \o text
\* isinstance(data, dict)
is_dict(data) == data = DictData
\* what file.write accepts
is_str(data) == data # DictData /\ data # ListData /\ data # RowsData

(***************************************************************************)
(* Paths the operations are invoked with.                                  *)
(***************************************************************************)
P_x == JoinPath(<<N_data, N_x>>)
P_in == JoinPath(<<N_data, N_in>>)
P_qdb == JoinPath(<<N_data, N_qdb>>)
P_etc_x == JoinPath(<<N_etc, N_x>>)
P_database_x == JoinPath(<<N_database, N_x>>)
P_traversal == JoinPath(<<N_data, N_dotdot, N_etc, N_y>>)
\* repo_path of line 37
RepoPath == JoinPath(<<N_data, N_repo>>)

InputPaths == {P_in, P_x, P_qdb, P_etc_x}
OutputPaths == {P_x, P_in, P_database_x, P_traversal}

Threads == {"t1", "t2"}
MainThread == "t1"

EmptyFs == <<>>
Idle ==
  [fn |-> "none", a |-> <<>>, b |-> <<>>, pc |-> 0, status |-> "idle",
   data |-> <<>>, fx |-> <<>>, fs0 |-> EmptyFs, again |-> FALSE]

\* the filesystems an invocation sequence may start from
BaseFs ==
  (<<N_data>> :> Dir) @@ (<<N_etc>> :> Dir) @@ (<<N_etc, N_x>> :> File(OldContent))
  @@ (<<N_data, N_in>> :> File(OldContent))
InitFs ==
  { BaseFs @@ fx @@ fd :
      fx \in { EmptyFs, <<N_data, N_x>> :> File(OldContent), <<N_data, N_x>> :> Dir },
      fd \in { EmptyFs, <<N_database>> :> Dir } }

Init ==
  /\ fs \in InitFs
  /\ th = [t \in Threads |-> Idle]
  /\ gate = <<>>
  /\ calls = 0

(***************************************************************************)
(* Steps of a thread.                                                      *)
(***************************************************************************)
Running(t) == th[t].status = "running"
Finished(t) == ~Running(t)
Instr(t) == Program(th[t].fn)[th[t].pc]
At(t, op) == Running(t) /\ Instr(t).op = op
ArgOf(t) == IF Instr(t).arg = "a" THEN th[t].a ELSE th[t].b

\* the step returned normally: on to the next one, or out of the function
Advance(r) ==
  IF r.pc = Len(Program(r.fn)) THEN [r EXCEPT !.status = "returned"]
  ELSE [r EXCEPT !.pc = @ + 1]
\* the step raised exc
Raise(r, exc) == [r EXCEPT !.status = Wrapped(r.fn, r.pc, exc)]
Effect(r, e) == [r EXCEPT !.fx = Append(@, e)]

PutNode(f, n, v) == [m \in DOMAIN f \cup {n} |-> IF m = n THEN v ELSE f[m]]

\* A function is called with its arguments; fs0 remembers the filesystem at
\* the call and again that this call repeats the thread's last one, a
\* fetch_and_save_data to the same save_path that returned normally.
DoCall(t, fns) ==
  /\ Finished(t)
  /\ calls < MaxCalls
  /\ \E fn \in fns :
       \E a \in (IF fn = "filter_csv" THEN InputPaths \cup {None}
                 ELSE IF fn \in {"execute_sql_query", "process_image",
                                 "transcribe_audio", "convert_md_to_html"}
                 THEN InputPaths ELSE {<<>>}) :
       \E b \in (IF fn = "filter_csv" THEN {<<>>}
                 ELSE IF fn = "clone_git_repo" THEN {RepoPath}
                 ELSE OutputPaths) :
         th' = [th EXCEPT ![t] =
                  [fn |-> fn, a |-> a, b |-> b, pc |-> 1, status |-> "running",
                   data |-> <<>>, fx |-> <<>>, fs0 |-> fs,
                   again |-> /\ fn = "fetch_and_save_data"
                             /\ th[t].fn = fn
                             /\ th[t].b = b
                             /\ th[t].status = "returned"]]
  /\ calls' = calls + 1
  /\ UNCHANGED <<fs, gate>>

Call(t) == DoCall(t, Functions)

\* enforce_security(path): every call site leaves allow_deletion at its default
EnforceSecurity(t) ==
  /\ At(t, "enforce")
  /\ LET res == enforce_security(fs, ArgOf(t), FALSE) IN
       th' = [th EXCEPT ![t] = IF res = "True" THEN Advance(@) ELSE Raise(@, res)]
  /\ UNCHANGED <<fs, gate, calls>>

\* requests.get and what is made of the response (lines 27-31, 71-76)
Responses(mode) ==
  IF mode = "json_or_text"
  THEN {"ConnectionError", "not_200", "JSONDecodeError", "dict", "list", "str"}
  ELSE {"ConnectionError", "not_200", "str"}

RequestsGet(t) ==
  /\ At(t, "requests_get")
  /\ \E resp \in Responses(Instr(t).arg) :
       th' = [th EXCEPT ![t] =
                CASE resp = "not_200" -> Raise(Effect(@, "http"), "RuntimeError")
                  [] resp \in {"ConnectionError", "JSONDecodeError"} ->
                       Raise(Effect(@, "http"), resp)
                  [] OTHER -> Advance([Effect(@, "http") EXCEPT !.data = <<resp>>])]
  /\ UNCHANGED <<fs, gate, calls>>

\* open(path, 'w'): creates the file or truncates it
OpenW(t) ==
  /\ At(t, "open_w")
  /\ LET r == Resolve(fs, th[t].b)
         can == r[1] /\ r[2] # <<>> /\ ~IsDir(fs, r[2])
     IN /\ th' = [th EXCEPT ![t] = IF can THEN Advance(Effect(@, "file"))
                                   ELSE Raise(Effect(@, "file"), "OSError")]
        /\ fs' = IF can THEN PutNode(fs, r[2], File(EmptyContent)) ELSE fs
  /\ UNCHANGED <<gate, calls>>

\* the body of the with block: json.dump or file.write on the open file
Write(t) ==
  /\ At(t, "write")
  /\ LET mode == Instr(t).arg
         data == th[t].data
         node == Resolve(fs, th[t].b)[2]
         dump == mode = "dump" \/ (mode = "dump_if_dict" /\ is_dict(data))
         can == dump \/ is_str(data)
     IN /\ th' = [th EXCEPT ![t] = IF can THEN Advance(Effect(@, "file"))
                                   ELSE Raise(@, "TypeError")]
        /\ fs' = IF can
                 THEN PutNode(fs, node, File(IF dump THEN json_dump(data) ELSE data))
                 ELSE fs
  /\ UNCHANGED <<gate, calls>>

\* lines 40-41: git clone when repo_path is not there
GitClone(t) ==
  /\ At(t, "git_clone")
  /\ IF path_exists(fs, th[t].b)
     THEN /\ th' = [th EXCEPT ![t] = Advance(@)]
          /\ fs' = fs
     ELSE \E ok \in BOOLEAN :
            LET r == Resolve(fs, th[t].b) IN
            /\ th' = [th EXCEPT ![t] = IF ok /\ r[1] THEN Advance(Effect(@, "git"))
                                       ELSE Raise(Effect(@, "git"), "CalledProcessError")]
            /\ fs' = IF ok /\ r[1] THEN PutNode(fs, r[2], Dir) ELSE fs
  /\ UNCHANGED <<gate, calls>>

\* lines 43-44: git add, git commit
GitRun(t) ==
  /\ At(t, "git_run")
  /\ \E ok \in BOOLEAN :
       th' = [th EXCEPT ![t] = IF ok THEN Advance(Effect(@, "git"))
                               ELSE Raise(Effect(@, "git"), "CalledProcessError")]
  /\ UNCHANGED <<fs, gate, calls>>

\* line 51: sqlite3.connect or duckdb.connect; a missing database file is made
Connect(t) ==
  /\ At(t, "connect")
  /\ LET r == Resolve(fs, th[t].a)
         engine == IF endswith(th[t].a, DbSuffix) THEN "sqlite3" ELSE "duckdb"
         can == r[1] /\ r[2] # <<>> /\ ~IsDir(fs, r[2])
     IN \E ok \in BOOLEAN :
          /\ th' = [th EXCEPT ![t] = IF can /\ ok THEN Advance(Effect(@, engine))
                                     ELSE Raise(Effect(@, engine), "OperationalError")]
          /\ fs' = IF can /\ ok /\ r[2] \notin DOMAIN fs
                   THEN PutNode(fs, r[2], File(EmptyContent)) ELSE fs
  /\ UNCHANGED <<gate, calls>>

\* lines 54-62: the query runs, or fails as RuntimeError
Execute(t) ==
  /\ At(t, "execute")
  /\ \E ok \in BOOLEAN :
       th' = [th EXCEPT ![t] = IF ok THEN Advance([@ EXCEPT !.data = RowsData])
                               ELSE Raise(@, "RuntimeError")]
  /\ UNCHANGED <<fs, gate, calls>>

\* lines 87-89: Image.open and resize
ImageOpen(t) ==
  /\ At(t, "image_open")
  /\ \E ok \in BOOLEAN :
       LET r == Resolve(fs, th[t].a) IN
       th' = [th EXCEPT ![t] =
                IF ok /\ r[1] /\ IsFile(fs, r[2])
                THEN Advance([Effect(@, "file") EXCEPT !.data = ImageData])
                ELSE Raise(Effect(@, "file"), "OSError")]
  /\ UNCHANGED <<fs, gate, calls>>

\* line 99: whisper.load_model
LoadModel(t) ==
  /\ At(t, "load_model")
  /\ \E ok \in BOOLEAN :
       th' = [th EXCEPT ![t] = IF ok THEN Advance(Effect(@, "model"))
                               ELSE Raise(Effect(@, "model"), "RuntimeError")]
  /\ UNCHANGED <<fs, gate, calls>>

\* line 100: model.transcribe reads the audio file
Transcribe(t) ==
  /\ At(t, "transcribe")
  /\ \E ok \in BOOLEAN :
       LET r == Resolve(fs, th[t].a) IN
       th' = [th EXCEPT ![t] =
                IF ok /\ r[1] /\ IsFile(fs, r[2])
                THEN Advance([Effect(@, "file") EXCEPT !.data = TranscriptData])
                ELSE Raise(Effect(@, "file"), "RuntimeError")]
  /\ UNCHANGED <<fs, gate, calls>>

\* lines 111-112: the markdown file is read and rendered
ReadMd(t) ==
  /\ At(t, "read_md")
  /\ LET r == Resolve(fs, th[t].a) IN
       th' = [th EXCEPT ![t] =
                IF r[1] /\ IsFile(fs, r[2])
                THEN Advance([Effect(@, "file") EXCEPT !.data = markdown(fs[r[2]].content)])
                ELSE Raise(Effect(@, "file"), "OSError")]
  /\ UNCHANGED <<fs, gate, calls>>

\* lines 128-136: the try block of the endpoint
ReadCsv(t) ==
  /\ At(t, "read_csv")
  /\ \E parsed \in BOOLEAN, has_column \in BOOLEAN :
       LET r == Resolve(fs, th[t].a) IN
       th' = [th EXCEPT ![t] =
                IF ~(parsed /\ r[1] /\ IsFile(fs, r[2]))
                THEN Raise(Effect(@, "file"), "Exception")
                ELSE [Effect(@, "file") EXCEPT
                        !.status = IF has_column THEN "return_200" ELSE "return_400"]]
  /\ UNCHANGED <<fs, gate, calls>>

Step(t) ==
  \/ EnforceSecurity(t)
  \/ RequestsGet(t)
  \/ OpenW(t)
  \/ Write(t)
  \/ GitClone(t)
  \/ GitRun(t)
  \/ Connect(t)
  \/ Execute(t)
  \/ ImageOpen(t)
  \/ LoadModel(t)
  \/ Transcribe(t)
  \/ ReadMd(t)
  \/ ReadCsv(t)

\* One caller: the functions are invoked one after another.
Next == Call(MainThread) \/ Step(MainThread)

Spec == Init /\ [][Next]_vars

(***************************************************************************)
(* Two callers at once, each invoking the operations that write a fetched  *)
(* payload to a new file; their steps interleave.                          *)
(***************************************************************************)
WriteNewFunctions == {"fetch_and_save_data", "scrape_website"}

CallWriteNew(t) == DoCall(t, WriteNewFunctions)

NextConcurrent ==
  \E t \in Threads :
    \/ CallWriteNew(t)
    \/ EnforceSecurity(t)
    \/ RequestsGet(t)
    \/ OpenW(t)
    \/ Write(t)

SpecConcurrent == Init /\ [][NextConcurrent]_vars

(***************************************************************************)
(* The policy check on its own: any path string, either value of           *)
(* allow_deletion, any of the starting filesystems.                        *)
(***************************************************************************)
GateNames == {N_data, N_database, N_etc, N_x, N_dot, N_dotdot}
GatePaths ==
  { JoinPath(ns) : ns \in UNION { [1..k -> GateNames] : k \in 1..MaxSegs } }

Check ==
  /\ gate = <<>>
  /\ \E p \in GatePaths, d \in BOOLEAN :
       gate' = [path |-> p, allow_deletion |-> d,
                result |-> enforce_security(fs, p, d)]
  /\ UNCHANGED <<fs, th, calls>>

NextGate == Check

SpecGate == Init /\ [][NextGate]_vars

(***************************************************************************)
(* Where a path string points, by the spelling alone (os.path.normpath):   *)
(* the root every path must stay under is /data.                           *)
(***************************************************************************)
RECURSIVE NormWalk(_, _)
NormWalk(n, comps) ==
  IF comps = <<>> THEN n
  ELSE LET c == Head(comps) IN
       NormWalk(IF c = <<>> \/ c = N_dot THEN n
                ELSE IF c = N_dotdot THEN Parent(n)
                ELSE Append(n, c),
                Tail(comps))
NormPath(s) == NormWalk(<<>>, Split(s))
IsNormal(s) == JoinPath(NormPath(s)) = s
InsideRoot(s) == LET n == NormPath(s) IN Len(n) >= 1 /\ n[1] = N_data
StrictlyInsideRoot(s) == LET n == NormPath(s) IN Len(n) >= 2 /\ n[1] = N_data
Checked == gate # <<>>

Errors ==
  { "PermissionError", "AttributeError", "RuntimeError", "ConnectionError",
    "JSONDecodeError", "OSError", "TypeError", "CalledProcessError",
    "OperationalError", "Exception", "return_500", "return_400" }
ReadingFunctions ==
  { "execute_sql_query", "process_image", "transcribe_audio",
    "convert_md_to_html", "filter_csv" }

(***************************************************************************)
(* C1: when the policy check denies one of an operation's paths, the       *)
(* operation has made no HTTP request, run no git command, connected to no *)
(* database, loaded no model and opened no file: every enforce_security    *)
(* call of an operation comes before its first external effect.            *)
(***************************************************************************)
C1_ChecksBeforeEffects ==
  \A t \in Threads :
    /\ th[t].status = "PermissionError" => th[t].fx = <<>>
    /\ At(t, "enforce") => th[t].fx = <<>>

\* execute_sql_query is denied on its second path, output_filename
C1_Witness ==
  \E t \in Threads :
    /\ th[t].fn = "execute_sql_query"
    /\ th[t].status = "PermissionError"
    /\ th[t].pc = 2

(***************************************************************************)
(* C2: a path that is outside /data once normalised (through a '..'        *)
(* segment, or a sibling such as /database/x) is denied by                 *)
(* enforce_security whatever allow_deletion is.                            *)
(***************************************************************************)
C2_OutsideDenied ==
  Checked /\ ~InsideRoot(gate.path) => gate.result = "PermissionError"

C4_ReadTargetsPermitted ==
  \A t \in Threads :
    /\ th[t].fn \in ReadingFunctions
    /\ th[t].status = "PermissionError"
    /\ Instr(t).arg = "a"
    => ~InsideRoot(th[t].a)

(***************************************************************************)
(* C5: with the operations invoked one after another, whatever exists when *)
(* an operation is invoked is still there, unchanged, at every later point *)
(* of that invocation; and a fetch_and_save_data repeated on the save_path *)
(* it has just created is denied and leaves the filesystem as it was.      *)
(***************************************************************************)
C5_ExistingFilesUntouched ==
  \A t \in Threads :
    th[t].status # "idle" =>
      /\ \A n \in DOMAIN th[t].fs0 : n \in DOMAIN fs /\ fs[n] = th[t].fs0[n]
      /\ th[t].again /\ (Finished(t) \/ th[t].pc > 1) =>
           th[t].status = "PermissionError" /\ fs = th[t].fs0

\* the repeated fetch has been denied; the file holds the first call's JSON
C5_Witness ==
  \E t \in Threads :
    /\ th[t].again
    /\ th[t].status = "PermissionError"
    /\ th[t].b = P_x
    /\ IsFile(fs, <<N_data, N_x>>)
    /\ fs[<<N_data, N_x>>].content = json_dump(DictData)

(***************************************************************************)
(* C6: of two concurrent operations writing a new file at the same path,   *)
(* at most one succeeds.                                                   *)
(***************************************************************************)
C6_AtMostOneCreates ==
  \A t, u \in Threads :
    t # u /\ th[t].status = "returned" /\ th[u].status = "returned"
      => th[t].b # th[u].b

(***************************************************************************)
(* C7: clone_git_repo passes the policy check whether or not /data/repo    *)
(* exists; an existing repository is added to and committed.               *)
(***************************************************************************)
C7_CloneRepoPermitted ==
  \A t \in Threads :
    th[t].fn = "clone_git_repo" => th[t].status # "PermissionError"

(***************************************************************************)
(* C8: convert_md_to_html on an existing markdown file inside /data and an *)
(* output path inside /data where nothing exists succeeds, and the output  *)
(* holds the rendering of the markdown file.                               *)
(***************************************************************************)
C8_RenderSucceeds ==
  \A t \in Threads :
    /\ th[t].fn = "convert_md_to_html"
    /\ Finished(t)
    /\ th[t].a = P_in
    /\ IsFile(th[t].fs0, <<N_data, N_in>>)
    /\ th[t].b = P_x
    /\ ~path_exists(th[t].fs0, P_x)
    => /\ th[t].status = "returned"
       /\ IsFile(fs, <<N_data, N_x>>)
       /\ fs[<<N_data, N_x>>].content = markdown(fs[<<N_data, N_in>>].content)

(***************************************************************************)
(* C9: the filter_csv endpoint answers every request: a policy violation   *)
(* or a missing parameter with a client error, a failure of the table      *)
(* reader with a server error; no exception leaves the handler.            *)
(***************************************************************************)
C9_EveryFailureAnswered ==
  \A t \in Threads :
    th[t].fn = "filter_csv" /\ Finished(t) =>
      /\ th[t].status \in {"return_200", "return_400", "return_500"}
      /\ th[t].pc = 1 => th[t].status = "return_400"

(***************************************************************************)
(* C10: when fetch_and_save_data, scrape_website or execute_sql_query ends *)
(* in an error, an output path that did not exist at the call still does   *)
(* not exist.                                                              *)
(***************************************************************************)
C10_NoOutputOnError ==
  \A t \in Threads :
    /\ th[t].fn \in {"fetch_and_save_data", "scrape_website", "execute_sql_query"}
    /\ th[t].status \in Errors
    /\ th[t].a # th[t].b
    /\ ~path_exists(th[t].fs0, th[t].b)
    => ~path_exists(fs, th[t].b)

====
